---- MODULE Spec2Model ----
(***************************************************************************)
(* Ingestion-and-retrieval pipeline of backend-educational-tutor:          *)
(*   answer_once.retrieve      query -> nearest neighbours -> de-dup       *)
(*   ingest.chunk_text         sliding token windows                       *)
(*   ingest.embed_batches      batched embedding                           *)
(*   ingest.ingest_single_pdf  pages -> chunks -> vectors -> collection    *)
(*   app.upload_pdf / ingest_pdf_background / delete_pdf                   *)
(***************************************************************************)
EXTENDS Integers, Sequences, FiniteSets, TLC

VARIABLES
    \* ---- answer_once.retrieve ----
    ranked,      \* the collection's records, ascending distance to the query
    k,           \* retrieve's parameter k
    res,         \* col.query's result: [documents, metadatas, ids]
    pos,         \* position of the for loop over zip(docs, metas, ids)
    uniq,        \* set of (source, page) keys already taken
    out_docs,
    out_metas,
    out_ids,
    rpc,         \* "query" | "loop" | "done"
    \* ---- ingest.chunk_text ----
    tokens,      \* enc.encode(text)
    max_tokens,
    overlap,
    chunk_i,     \* the loop variable i of chunk_text
    chunks,      \* the windows appended so far (each decoded to text by the code)
    cpc,         \* "start" | "loop" | "done"
    \* ---- ingest.embed_batches ----
    texts,
    batch_size,
    embed_i,     \* the loop variable i of embed_batches
    all_vecs,
    sent,        \* the batches handed to client.embeddings.create, in order
    epc,         \* "loop" | "done" | "raised"
    \* ---- the application: app.py and ingest.ingest_single_pdf ----
    disk,        \* the files of DATA_DIR: [name, readable, pages]
    store,       \* the records of the collection "edu-tutor"
    runs,        \* the ingestion runs: ingest_single_pdf's local state
    uuid_n,      \* number of uuid4() values drawn so far
    deleted      \* the filenames for which delete_pdf has returned

retrVars == <<ranked, k, res, pos, uniq, out_docs, out_metas, out_ids, rpc>>

chunkVars == <<tokens, max_tokens, overlap, chunk_i, chunks, cpc>>

embedVars == <<texts, batch_size, embed_i, all_vecs, sent, epc>>

sysVars == <<disk, store, runs, uuid_n, deleted>>

vars == <<retrVars, chunkVars, embedVars, sysVars>>

\* What a step of one component leaves alone.
notRetr == <<chunkVars, embedVars, sysVars>>

notChunk == <<retrVars, embedVars, sysVars>>

notEmbed == <<retrVars, chunkVars, sysVars>>

notSys == <<retrVars, chunkVars, embedVars>>

(***************************************************************************)
(* Python helpers                                                          *)
(***************************************************************************)
Min(a, b) == IF a <= b THEN a ELSE b

Max(a, b) == IF a >= b THEN a ELSE b

\* Python clamps a slice index: negative counts from the end, then clip.
PyIndex(n, a) == IF a < 0 THEN Max(n + a, 0) ELSE Min(a, n)

\* Python s[a:b]
PySlice(s, a, b) ==
    LET lo == PyIndex(Len(s), a)
        hi == PyIndex(Len(s), b)
    IN  IF lo < hi THEN SubSeq(s, lo + 1, hi) ELSE <<>>

(***************************************************************************)
(* answer_once.retrieve                                                    *)
(***************************************************************************)
MaxRanked == 4
MaxK == 3

\* The (source, page) pairs of the collection's metadata.
RetrKeys == {<<"A", 1>>, <<"A", 2>>, <<"B", 1>>}

\* Metadata is a dict; None and {} are both falsy and written NoMeta.
NoMeta == [present |-> FALSE, source |-> "", page |-> 0]

RetrMetas ==
    {NoMeta} \cup {[present |-> TRUE, source |-> key[1], page |-> key[2]] : key \in RetrKeys}

\* A document is a string; None and "" are both falsy and written NoDoc.
\* The text of a record that has one is its own: no two records share one.
DocText(j) == <<"t", j>>

NoDoc == <<"", 0>>

\* The records of the collection in ascending distance order, built from
\* which of them have a document (d) and their metadata (m); the id of a
\* record is unique in the collection (here: its rank).
RankedList(n, d, m) ==
    [j \in 1..n |-> [doc |-> IF d[j] THEN DocText(j) ELSE NoDoc,
                     meta |-> m[j], id |-> j]]

\* col.query(query_embeddings=[qvec], n_results=k, include=[...]): up to k
\* nearest neighbours as three parallel lists.
QueryStore(recs, n) ==
    LET top == SubSeq(recs, 1, Min(n, Len(recs)))
    IN  [documents |-> [j \in 1..Len(top) |-> top[j].doc],
         metadatas |-> [j \in 1..Len(top) |-> top[j].meta],
         ids       |-> [j \in 1..Len(top) |-> top[j].id]]

\* zip(docs, metas, ids) stops at the shortest list.
ZipLen(r) == Min(Len(r.documents), Min(Len(r.metadatas), Len(r.ids)))

\* not d or not m
Malformed(d, m) == d = NoDoc \/ ~m.present

\* key = (m.get("source"), m.get("page"))
Key(m) == <<m.source, m.page>>

EmptyRes == [documents |-> <<>>, metadatas |-> <<>>, ids |-> <<>>]

\* The state of a retrieve call that is not running.
RetrIdle ==
    /\ ranked = <<>>
    /\ k = 1
    /\ res = EmptyRes
    /\ pos = 1
    /\ uniq = {}
    /\ out_docs = <<>>
    /\ out_metas = <<>>
    /\ out_ids = <<>>
    /\ rpc = "done"

RetrInit ==
    /\ \E n \in 0..MaxRanked :
        \E d \in [1..n -> BOOLEAN], m \in [1..n -> RetrMetas] :
            ranked = RankedList(n, d, m)
    /\ k \in 1..MaxK
    /\ res = EmptyRes
    /\ pos = 1
    /\ uniq = {}
    /\ out_docs = <<>>
    /\ out_metas = <<>>
    /\ out_ids = <<>>
    /\ rpc = "query"

\* lines 18-29: embed the query, query the collection for k neighbours
Query ==
    /\ rpc = "query"
    /\ res' = QueryStore(ranked, k)
    /\ rpc' = "loop"
    /\ UNCHANGED <<ranked, k, pos, uniq, out_docs, out_metas, out_ids>>
    /\ UNCHANGED notRetr

\* lines 34-35: skip an entry with a missing document or missing metadata
SkipMalformed ==
    /\ rpc = "loop"
    /\ pos <= ZipLen(res)
    /\ Malformed(res.documents[pos], res.metadatas[pos])
    /\ pos' = pos + 1
    /\ UNCHANGED <<ranked, k, res, uniq, out_docs, out_metas, out_ids, rpc>>
    /\ UNCHANGED notRetr

\* mutant: the key is never found, so nothing is de-duplicated
KeySeen_Never(key, seen) == FALSE

\* the membership test of line 37
KeySeen(key, seen) == key \in seen

\* lines 36-38: skip an entry whose (source, page) was already taken
SkipDuplicate ==
    /\ rpc = "loop"
    /\ pos <= ZipLen(res)
    /\ ~Malformed(res.documents[pos], res.metadatas[pos])
    /\ KeySeen(Key(res.metadatas[pos]), uniq)
    /\ pos' = pos + 1
    /\ UNCHANGED <<ranked, k, res, uniq, out_docs, out_metas, out_ids, rpc>>
    /\ UNCHANGED notRetr

\* mutant: the id of the previous candidate is appended
AppendedId_Previous(r, p) == r.ids[Max(p - 1, 1)]

\* the id appended at line 40
AppendedId(r, p) == r.ids[p]

\* lines 39-42: take the entry; break once k entries are collected
Take ==
    /\ rpc = "loop"
    /\ pos <= ZipLen(res)
    /\ ~Malformed(res.documents[pos], res.metadatas[pos])
    /\ ~KeySeen(Key(res.metadatas[pos]), uniq)
    /\ uniq' = uniq \cup {Key(res.metadatas[pos])}
    /\ out_docs' = Append(out_docs, res.documents[pos])
    /\ out_metas' = Append(out_metas, res.metadatas[pos])
    /\ out_ids' = Append(out_ids, AppendedId(res, pos))
    /\ pos' = pos + 1
    /\ rpc' = IF Len(out_docs') = k THEN "done" ELSE "loop"
    /\ UNCHANGED <<ranked, k, res>>
    /\ UNCHANGED notRetr

\* line 43: the candidates are exhausted
Exhausted ==
    /\ rpc = "loop"
    /\ pos > ZipLen(res)
    /\ rpc' = "done"
    /\ UNCHANGED <<ranked, k, res, pos, uniq, out_docs, out_metas, out_ids>>
    /\ UNCHANGED notRetr

RetrNext == Query \/ SkipMalformed \/ SkipDuplicate \/ Take \/ Exhausted

(***************************************************************************)
(* ingest.chunk_text                                                       *)
(***************************************************************************)
MaxTokens == 5
MaxWindow == 3

\* The loop is capped for the configurations in which it never ends; the cap
\* is above the number of windows any terminating run produces.
MaxChunks == MaxTokens + 2

TokenAlphabet == {1, 2}

TokenStreams == UNION {[1..n -> TokenAlphabet] : n \in 0..MaxTokens}

\* ceil(a / b) for a >= 0, b >= 1
CeilDiv(a, b) == (a + b - 1) \div b

\* line 23: window = tokens[i:i+max_tokens]
Window(toks, i, mt) == PySlice(toks, i, i + mt)

\* mutant: the window slides by a whole window, without overlap
Stride_NoOverlap(mt, ov) == mt

\* line 25: i += max_tokens - overlap
Stride(mt, ov) == mt - ov

\* mutant: while i <= len(tokens)
LoopCond_Inclusive(i, toks) == i <= Len(toks)

\* line 22: while i < len(tokens)
LoopCond(i, toks) == i < Len(toks)

ChunkIdle ==
    /\ tokens = <<>>
    /\ max_tokens = 1
    /\ overlap = 0
    /\ chunk_i = 0
    /\ chunks = <<>>
    /\ cpc = "done"

\* Every call chunk_text(text, max_tokens, overlap) with max_tokens >= 1 and
\* overlap >= 0, the configurations with overlap >= max_tokens included.
ChunkInit ==
    /\ tokens \in TokenStreams
    /\ max_tokens \in 1..MaxWindow
    /\ overlap \in 0..MaxWindow
    /\ chunk_i = 0
    /\ chunks = <<>>
    /\ cpc = "start"

\* lines 19-21: tokens = enc.encode(text); chunks = []; i = 0.
\* Nothing is validated: the loop is entered whatever the configuration.
ChunkEnter ==
    /\ cpc = "start"
    /\ cpc' = "loop"
    /\ UNCHANGED <<tokens, max_tokens, overlap, chunk_i, chunks>>
    /\ UNCHANGED notChunk

\* lines 22-25: one iteration of the while loop
ChunkStep ==
    /\ cpc = "loop"
    /\ LoopCond(chunk_i, tokens)
    /\ Len(chunks) < MaxChunks
    /\ chunks' = Append(chunks, Window(tokens, chunk_i, max_tokens))
    /\ chunk_i' = chunk_i + Stride(max_tokens, overlap)
    /\ UNCHANGED <<tokens, max_tokens, overlap, cpc>>
    /\ UNCHANGED notChunk

\* line 26: return chunks
ChunkReturn ==
    /\ cpc = "loop"
    /\ ~LoopCond(chunk_i, tokens)
    /\ cpc' = "done"
    /\ UNCHANGED <<tokens, max_tokens, overlap, chunk_i, chunks>>
    /\ UNCHANGED notChunk

ChunkNext == ChunkEnter \/ ChunkStep \/ ChunkReturn

\* chunk_text as a function: the windows from position i on, for a
\* configuration whose loop ends (0 <= overlap < max_tokens).
RECURSIVE WindowsFrom(_, _, _, _)
WindowsFrom(toks, i, mt, ov) ==
    IF LoopCond(i, toks)
    THEN <<Window(toks, i, mt)>> \o WindowsFrom(toks, i + Stride(mt, ov), mt, ov)
    ELSE <<>>

ChunkText(toks, mt, ov) == WindowsFrom(toks, 0, mt, ov)

(***************************************************************************)
(* ingest.embed_batches                                                    *)
(***************************************************************************)
MaxTexts == 5
MaxBatch == 3

TextAlphabet == {"a", "b"}

TextLists == UNION {[1..n -> TextAlphabet] : n \in 0..MaxTexts}

\* The embedding model: one fixed vector per text.
Embedding(t) == <<"vec", t>>

\* client.embeddings.create(model=EMBED_MODEL, input=batch).data, read as
\* [d.embedding for d in resp.data]: one vector per input, in input order.
EmbedCreate(batch) == [j \in 1..Len(batch) |-> Embedding(batch[j])]

\* line 48: batch = texts[i:i+batch_size]
BatchOf(txts, i, bs) == PySlice(txts, i, i + bs)

\* mutant: the range steps one past the batch, skipping a text
NextBatchStart_Skip(i, bs) == i + bs + 1

\* line 47: the next value of range(0, n, batch_size)
NextBatchStart(i, bs) == i + bs

EmbedIdle ==
    /\ texts = <<>>
    /\ batch_size = 1
    /\ embed_i = 0
    /\ all_vecs = <<>>
    /\ sent = <<>>
    /\ epc = "done"

EmbedInit ==
    /\ texts \in TextLists
    /\ batch_size \in 1..MaxBatch
    /\ embed_i = 0
    /\ all_vecs = <<>>
    /\ sent = <<>>
    /\ epc = "loop"

\* lines 47-51: one batch is embedded and its vectors are appended
EmbedBatch ==
    /\ epc = "loop"
    /\ embed_i < Len(texts)
    /\ sent' = Append(sent, BatchOf(texts, embed_i, batch_size))
    /\ all_vecs' = all_vecs \o EmbedCreate(BatchOf(texts, embed_i, batch_size))
    /\ embed_i' = NextBatchStart(embed_i, batch_size)
    /\ UNCHANGED <<texts, batch_size, epc>>
    /\ UNCHANGED notEmbed

\* line 49: the embedding call raises; embed_batches returns nothing
EmbedRaise ==
    /\ epc = "loop"
    /\ embed_i < Len(texts)
    /\ sent' = Append(sent, BatchOf(texts, embed_i, batch_size))
    /\ epc' = "raised"
    /\ UNCHANGED <<texts, batch_size, embed_i, all_vecs>>
    /\ UNCHANGED notEmbed

\* lines 52-53: return all_vecs
EmbedReturn ==
    /\ epc = "loop"
    /\ embed_i >= Len(texts)
    /\ epc' = "done"
    /\ UNCHANGED <<texts, batch_size, embed_i, all_vecs, sent>>
    /\ UNCHANGED notEmbed

EmbedNext == EmbedBatch \/ EmbedRaise \/ EmbedReturn

(***************************************************************************)
(* app.upload_pdf, app.ingest_pdf_background, ingest.main,                  *)
(* ingest.ingest_single_pdf, app.delete_pdf                                *)
(***************************************************************************)
\* Documents of at most MaxPages pages of at most MaxPageTokens tokens.
MaxPages == 2
MaxPageTokens == 2

\* The code's sizes, scaled down so that a small document spans several
\* windows and several batches: chunk_text(page_text, max_tokens=500,
\* overlap=80), embed_batches(docs, batch_size=64), add_batch = 256.
IngestMaxTokens == 2
IngestOverlap == 1
EmbedBatchSize == 2
AddBatchSize == 2

RunIds == {1, 2}

\* The cleaned text of a page, as its token stream: the empty text <<>>
\* (a page without extractable text) or a text of MaxPageTokens tokens.
PageTexts == {<<>>, [j \in 1..MaxPageTokens |-> 1]}

PageLists == UNION {[1..n -> PageTexts] : n \in 0..MaxPages}

\* What a client may upload: a readable PDF, or bytes PdfReader rejects.
Uploads ==
    {[readable |-> TRUE, pages |-> ps] : ps \in PageLists} \cup
    {[readable |-> FALSE, pages |-> <<>>]}

UploadNames == {"a.pdf"}

NoName == <<0, "">>

NoResult == [pages |-> -1, chunks |-> -1]

IdleRun ==
    [pc |-> "idle", origin |-> "", path |-> NoName, pages |-> <<>>,
     page_count |-> 0, ids |-> <<>>, docs |-> <<>>, metas |-> <<>>,
     vectors |-> <<>>, i |-> 0, ai |-> 0, embed_calls |-> 0, add_calls |-> 0,
     err |-> "", result |-> NoResult]

SysInit ==
    /\ disk = {}
    /\ store = {}
    /\ runs = [r \in RunIds |-> IdleRun]
    /\ uuid_n = 0
    /\ deleted = {}

\* The run slots are taken in order.
FreeSlot(r) ==
    /\ runs[r].pc = "idle"
    /\ \A q \in RunIds : q < r => runs[q].pc # "idle"

DiskNames == {f.name : f \in disk}

FileAt(n) == CHOOSE f \in disk : f.name = n

\* app.py line 160: safe_name = f"{uuid.uuid4().hex}_{file.filename}"
SafeName(u, filename) == <<u, filename>>

\* upload_pdf: the file is written under a fresh name and the ingestion is
\* queued as a background task (a non-.pdf name is refused with 400 and
\* changes nothing).
UploadPdf(r, filename, contents) ==
    /\ FreeSlot(r)
    /\ LET name == SafeName(uuid_n + 1, filename)
       IN  /\ disk' = {f \in disk : f.name # name} \cup
                      {[name |-> name, readable |-> contents.readable,
                        pages |-> contents.pages]}
           /\ runs' = [runs EXCEPT ![r] =
                        [IdleRun EXCEPT !.pc = "queued", !.origin = "upload",
                                        !.path = name]]
    /\ uuid_n' = uuid_n + 1
    /\ UNCHANGED <<store, deleted>>
    /\ UNCHANGED notSys

\* ingest.main: for pdf in data_dir.glob("*.pdf"): ingest_single_pdf(pdf)
MainIngest(r, name) ==
    /\ FreeSlot(r)
    /\ name \in DiskNames
    /\ runs' = [runs EXCEPT ![r] =
                 [IdleRun EXCEPT !.pc = "queued", !.origin = "main",
                                 !.path = name]]
    /\ UNCHANGED <<disk, store, uuid_n, deleted>>
    /\ UNCHANGED notSys

\* mutant: the id carries no random suffix
ChunkId_NoSuffix(name, page_no, idx, u) == <<name, page_no, idx, 0>>

\* line 70: f"{pdf_path.name}-p{page_no}-{idx}-{uuid.uuid4().hex[:8]}"
ChunkId(name, page_no, idx, u) == <<name, page_no, idx, u>>

\* line 72: {"source": pdf_path.name, "page": page_no}
ChunkMeta(name, page_no) == [source |-> name, page |-> page_no]

\* lines 63-72: the chunks of the pages from page_no on; u uuids are drawn
\* so far. An empty page is skipped.
RECURSIVE ParseFrom(_, _, _, _)
ParseFrom(pages, page_no, name, u) ==
    IF page_no > Len(pages)
    THEN [ids |-> <<>>, docs |-> <<>>, metas |-> <<>>]
    ELSE LET cs == IF pages[page_no] = <<>>
                   THEN <<>>
                   ELSE ChunkText(pages[page_no], IngestMaxTokens, IngestOverlap)
             rest == ParseFrom(pages, page_no + 1, name, u + Len(cs))
         IN  [ids   |-> [j \in 1..Len(cs) |-> ChunkId(name, page_no, j - 1, u + j)]
                         \o rest.ids,
              docs  |-> cs \o rest.docs,
              metas |-> [j \in 1..Len(cs) |-> ChunkMeta(name, page_no)]
                         \o rest.metas]

\* mutant: page_count is incremented after the empty-page test
PageCount_NonEmpty(pages) ==
    Cardinality({p \in 1..Len(pages) : pages[p] # <<>>})

\* lines 62-64: page_count is incremented once per page
PageCount(pages) == Len(pages)

\* lines 56-76, the file gone or unreadable: PdfReader raises and the run
\* is abandoned.
IngestExtractFail(r) ==
    /\ runs[r].pc = "queued"
    /\ \/ runs[r].path \notin DiskNames
       \/ /\ runs[r].path \in DiskNames
          /\ ~FileAt(runs[r].path).readable
    /\ runs' = [runs EXCEPT ![r].pc = "failed", ![r].err = "extract"]
    /\ UNCHANGED <<disk, store, uuid_n, deleted>>
    /\ UNCHANGED notSys

\* lines 56-76: the collection handle is taken, the pages are read, cleaned
\* and chunked; without any chunk the run returns {pages, chunks: 0}.
IngestParse(r) ==
    /\ runs[r].pc = "queued"
    /\ runs[r].path \in DiskNames
    /\ FileAt(runs[r].path).readable
    /\ LET pages == FileAt(runs[r].path).pages
           parsed == ParseFrom(pages, 1, runs[r].path, uuid_n)
           count == PageCount(pages)
       IN  /\ uuid_n' = uuid_n + Len(parsed.ids)
           /\ runs' = [runs EXCEPT ![r] =
                [@ EXCEPT !.pages = pages, !.page_count = count,
                          !.ids = parsed.ids, !.docs = parsed.docs,
                          !.metas = parsed.metas,
                          !.pc = IF parsed.docs = <<>> THEN "done" ELSE "embed",
                          !.result = IF parsed.docs = <<>>
                                     THEN [pages |-> count, chunks |-> 0]
                                     ELSE NoResult]]
    /\ UNCHANGED <<disk, store, deleted>>
    /\ UNCHANGED notSys

\* mutant: embed_batches returns inside its loop, after the first batch
EmbedLoopDone_FirstBatch(i, n) == TRUE

\* line 47: range(0, n, batch_size) is exhausted
EmbedLoopDone(i, n) == i >= n

\* line 78, embed_batches lines 47-53: one batch of the run is embedded;
\* after the last one the vectors are returned to ingest_single_pdf.
IngestEmbed(r) ==
    /\ runs[r].pc = "embed"
    /\ LET run == runs[r]
           batch == BatchOf(run.docs, run.i, EmbedBatchSize)
           nxt == NextBatchStart(run.i, EmbedBatchSize)
       IN  runs' = [runs EXCEPT ![r] =
                [@ EXCEPT !.vectors = run.vectors \o EmbedCreate(batch),
                          !.i = nxt,
                          !.embed_calls = run.embed_calls + 1,
                          !.pc = IF EmbedLoopDone(nxt, Len(run.docs))
                                 THEN "add" ELSE "embed"]]
    /\ UNCHANGED <<disk, store, uuid_n, deleted>>
    /\ UNCHANGED notSys

\* embed_batches line 49 raises: the exception leaves ingest_single_pdf
IngestEmbedFail(r) ==
    /\ runs[r].pc = "embed"
    /\ runs' = [runs EXCEPT ![r].pc = "failed", ![r].err = "embed",
                            ![r].embed_calls = @ + 1]
    /\ UNCHANGED <<disk, store, uuid_n, deleted>>
    /\ UNCHANGED notSys

\* lines 83-88: the slices handed to col.add
AddBatchArgs(run) ==
    [ids        |-> PySlice(run.ids, run.ai, run.ai + AddBatchSize),
     documents  |-> PySlice(run.docs, run.ai, run.ai + AddBatchSize),
     metadatas  |-> PySlice(run.metas, run.ai, run.ai + AddBatchSize),
     embeddings |-> PySlice(run.vectors, run.ai, run.ai + AddBatchSize)]

\* col.add accepts lists of one length only
AddArgsValid(a) ==
    /\ Len(a.documents) = Len(a.ids)
    /\ Len(a.metadatas) = Len(a.ids)
    /\ Len(a.embeddings) = Len(a.ids)

\* col.add: the records are inserted; an id the collection holds already is
\* not written again.
ChromaAdd(st, a) ==
    st \cup
    {rec \in {[id |-> a.ids[j], document |-> a.documents[j],
               metadata |-> a.metadatas[j], embedding |-> a.embeddings[j]]
              : j \in 1..Len(a.ids)}
        : \A old \in st : old.id # rec.id}

\* lines 80-92: one batch is added to the collection; after the last one
\* the run returns {pages, chunks}.
IngestAdd(r) ==
    /\ runs[r].pc = "add"
    /\ AddArgsValid(AddBatchArgs(runs[r]))
    /\ store' = ChromaAdd(store, AddBatchArgs(runs[r]))
    /\ LET run == runs[r]
           total == Len(run.docs)
           nxt == run.ai + AddBatchSize
       IN  runs' = [runs EXCEPT ![r] =
                [@ EXCEPT !.ai = nxt,
                          !.add_calls = run.add_calls + 1,
                          !.pc = IF nxt >= total THEN "done" ELSE "add",
                          !.result = IF nxt >= total
                                     THEN [pages |-> run.page_count,
                                           chunks |-> total]
                                     ELSE NoResult]]
    /\ UNCHANGED <<disk, uuid_n, deleted>>
    /\ UNCHANGED notSys

\* lines 83-88, col.add raises: the batches already added stay
IngestAddFail(r) ==
    /\ runs[r].pc = "add"
    /\ runs' = [runs EXCEPT ![r].pc = "failed", ![r].err = "store",
                            ![r].add_calls = @ + 1]
    /\ UNCHANGED <<disk, store, uuid_n, deleted>>
    /\ UNCHANGED notSys

\* mutant: the records are matched on the uploaded file's own name
DeleteWhere_ByUploadName(st, filename) ==
    {rec \in st : rec.metadata.source[2] # filename[2]}

\* app.py line 195: col.delete(where={"source": filename})
DeleteWhere(st, filename) ==
    {rec \in st : rec.metadata.source # filename}

\* The filenames a client can know: those upload_pdf and list_pdfs returned.
KnownNames == {runs[r].path : r \in {q \in RunIds : runs[q].pc # "idle"}}

\* delete_pdf: the file is unlinked if it exists and the records of the
\* source are deleted from the collection.
DeletePdf(filename) ==
    /\ filename \in KnownNames
    /\ disk' = {f \in disk : f.name # filename}
    /\ store' = DeleteWhere(store, filename)
    /\ deleted' = deleted \cup {filename}
    /\ UNCHANGED <<runs, uuid_n>>
    /\ UNCHANGED notSys

Upload == \E r \in RunIds, fn \in UploadNames, c \in Uploads : UploadPdf(r, fn, c)

Main == \E r \in RunIds, n \in DiskNames : MainIngest(r, n)

ExtractFail == \E r \in RunIds : IngestExtractFail(r)

Parse == \E r \in RunIds : IngestParse(r)

Embed == \E r \in RunIds : IngestEmbed(r)

EmbedFail == \E r \in RunIds : IngestEmbedFail(r)

Add == \E r \in RunIds : IngestAdd(r)

AddFail == \E r \in RunIds : IngestAddFail(r)

Delete == \E n \in KnownNames : DeletePdf(n)

IngestNext ==
    Upload \/ Main \/ ExtractFail \/ Parse \/ Embed \/ EmbedFail \/ Add \/ AddFail

Next == IngestNext \/ Delete


(***************************************************************************)
(* Specifications                                                          *)
(***************************************************************************)
InitRetrieve == RetrInit /\ ChunkIdle /\ EmbedIdle /\ SysInit

SpecRetrieve == InitRetrieve /\ [][RetrNext]_vars

InitChunk == ChunkInit /\ RetrIdle /\ EmbedIdle /\ SysInit

SpecChunk == InitChunk /\ [][ChunkNext]_vars

InitEmbed == EmbedInit /\ RetrIdle /\ ChunkIdle /\ SysInit

SpecEmbed == InitEmbed /\ [][EmbedNext]_vars

Init == SysInit /\ RetrIdle /\ ChunkIdle /\ EmbedIdle

\* Ingestion runs alone: uploads, the command line's re-ingestion, no delete.
SpecIngest == Init /\ [][IngestNext]_vars

\* The application: ingestion runs and deletions, interleaved.
Spec == Init /\ [][Next]_vars


(***************************************************************************)
(* Claims about answer_once.retrieve (SpecRetrieve)                        *)
(***************************************************************************)
\* The candidates are the entries col.query returned.
NumCands == ZipLen(res)

CandHasKey(p) == res.metadatas[p].present

CandKey(p) == <<res.metadatas[p].source, res.metadatas[p].page>>

CandWellFormed(p) == res.documents[p] # NoDoc /\ res.metadatas[p].present

OutKey(a) == <<out_metas[a].source, out_metas[a].page>>

\* The candidate an output entry was taken from (ids are unique).
CandPos(x) == CHOOSE p \in 1..NumCands : res.ids[p] = x

OutFromCandidates ==
    /\ Len(out_docs) = Len(out_ids)
    /\ Len(out_metas) = Len(out_ids)
    /\ \A a \in 1..Len(out_ids) :
        /\ \E p \in 1..NumCands : res.ids[p] = out_ids[a]
        /\ out_docs[a] = res.documents[CandPos(out_ids[a])]
        /\ out_metas[a] = res.metadatas[CandPos(out_ids[a])]

NoDuplicateKeys ==
    \A a, b \in 1..Len(out_metas) : a # b => OutKey(a) # OutKey(b)

OrderPreserved ==
    \A a \in 2..Len(out_ids) : CandPos(out_ids[a - 1]) < CandPos(out_ids[a])

\* C1 as stated: when retrieve returns, the output holds no two entries with
\* the same (source, page), the entry kept for a key is the first candidate
\* carrying that key, and the output is an order-preserving subsequence of
\* the candidates.
C1_FirstCandidateKept ==
    rpc = "done" =>
        /\ OutFromCandidates
        /\ NoDuplicateKeys
        /\ OrderPreserved
        /\ \A a \in 1..Len(out_ids) : \A p \in 1..NumCands :
            (CandHasKey(p) /\ CandKey(p) = OutKey(a)) => CandPos(out_ids[a]) <= p

OutKeys == [a \in 1..Len(out_metas) |-> OutKey(a)]

\* The collection's nearest records are four well-formed ones, of pages
\* (A,1), (A,1), (A,2), (B,1).
ExampleRanked ==
    /\ Len(ranked) = 4
    /\ \A j \in 1..4 : ranked[j].doc # NoDoc
    /\ [j \in 1..4 |-> <<ranked[j].meta.source, ranked[j].meta.page>>] =
            << <<"A", 1>>, <<"A", 1>>, <<"A", 2>>, <<"B", 1>> >>

\* C1 amended: when retrieve returns, the output holds no two entries with
\* the same (source, page), the entry kept for a key is the first candidate
\* carrying that key that has both a document and metadata, and the output
\* is an order-preserving subsequence of the candidates, which are at most
\* k: of the records (A,1), (A,1), (A,2), (B,1) a call with k = 3 gets the
\* first three and returns (A,1), (A,2).
C1_FirstWellFormedKept ==
    rpc = "done" =>
        /\ NumCands <= k
        /\ (ExampleRanked /\ k = 3) => OutKeys = << <<"A", 1>>, <<"A", 2>> >>
        /\ OutFromCandidates
        /\ NoDuplicateKeys
        /\ OrderPreserved
        /\ \A a \in 1..Len(out_ids) :
            /\ CandWellFormed(CandPos(out_ids[a]))
            /\ \A p \in 1..NumCands :
                (CandWellFormed(p) /\ CandKey(p) = OutKey(a)) =>
                    CandPos(out_ids[a]) <= p

\* A returned call in which a candidate without a document came first for a
\* key, a later candidate of the key was kept and a third one was dropped.
C1_Witness ==
    /\ rpc = "done"
    /\ \E p, q, d \in 1..NumCands :
        /\ p < q /\ q < d
        /\ CandHasKey(p) /\ ~CandWellFormed(p)
        /\ CandWellFormed(q) /\ CandWellFormed(d)
        /\ CandKey(p) = CandKey(q) /\ CandKey(q) = CandKey(d)
        /\ res.documents[q] # res.documents[d]
        /\ \E a \in 1..Len(out_ids) : out_ids[a] = res.ids[q]
        /\ \A a \in 1..Len(out_ids) : out_ids[a] # res.ids[d]

WellFormedKeys == {CandKey(p) : p \in {q \in 1..NumCands : CandWellFormed(q)}}

\* C2: the three output sequences always have one length, never above k,
\* entry i of each comes from one and the same candidate, and when retrieve
\* returns the length is below k exactly when the candidates hold fewer than
\* k distinct keys of well-formed entries.
C2_AlignedAtMostK ==
    /\ Len(out_docs) = Len(out_metas)
    /\ Len(out_metas) = Len(out_ids)
    /\ Len(out_ids) <= k
    /\ \A a \in 1..Len(out_ids) : \E p \in 1..NumCands :
        /\ out_docs[a] = res.documents[p]
        /\ out_metas[a] = res.metadatas[p]
        /\ out_ids[a] = res.ids[p]
    /\ rpc = "done" =>
        /\ Len(out_ids) = Min(k, Cardinality(WellFormedKeys))
        /\ (Len(out_ids) < k <=> Cardinality(WellFormedKeys) < k)

\* A returned call that got k candidates and kept fewer, two at least.
C2_Witness ==
    /\ rpc = "done"
    /\ NumCands = k
    /\ Len(out_ids) >= 2
    /\ Len(out_ids) < k

(***************************************************************************)
(* Claims about ingest.chunk_text (SpecChunk)                              *)
(***************************************************************************)
ValidConfig == 0 <= overlap /\ overlap < max_tokens

\* C3: a call with overlap >= max_tokens is rejected before the windowing
\* loop is entered.
C3_BadConfigNeverEntersLoop ==
    overlap >= max_tokens => cpc = "start"

\* the last n elements of w (all of w when it has fewer)
LastN(w, n) == SubSeq(w, Max(Len(w) - n, 0) + 1, Len(w))

\* the first n elements of w (all of w when it has fewer)
FirstN(w, n) == SubSeq(w, 1, Min(n, Len(w)))

\* C4 as stated: under 0 <= overlap < max_tokens, for consecutive windows
\* i, i+1 the last `overlap` tokens of window i are the first `overlap`
\* tokens of window i+1.
C4_LastOverlapIsFirstOverlap ==
    ValidConfig =>
        \A j \in 1..(Len(chunks) - 1) :
            LastN(chunks[j], overlap) = FirstN(chunks[j + 1], overlap)

\* C4 amended: under 0 <= overlap < max_tokens, for consecutive windows
\* i, i+1 the tokens of window i after its first max_tokens - overlap tokens
\* are the leading tokens of window i+1; when window i holds max_tokens
\* tokens these are its last `overlap` tokens and the first `overlap` tokens
\* of window i+1, and when window i is cut short by the end of the stream
\* window i+1 holds fewer than `overlap` tokens.
C4_TailIsHeadOfNext ==
    ValidConfig =>
        \A j \in 1..(Len(chunks) - 1) :
            LET w == chunks[j]
                nxt == chunks[j + 1]
                step == max_tokens - overlap
            IN  /\ Len(w) >= step
                /\ SubSeq(w, step + 1, Len(w)) = FirstN(nxt, Len(w) - step)
                /\ Len(w) = max_tokens =>
                    /\ Len(nxt) >= overlap
                    /\ LastN(w, overlap) = FirstN(nxt, overlap)
                /\ Len(w) < max_tokens => Len(nxt) < overlap

\* A finished run with a full window, then a window cut short by the end of
\* the stream, then a still shorter final window.
C4_Witness ==
    /\ ValidConfig
    /\ cpc = "done"
    /\ Len(chunks) >= 3
    /\ \E j \in 1..(Len(chunks) - 1) :
        /\ Len(chunks[j]) < max_tokens
        /\ Len(chunks[j + 1]) >= 1
    /\ \E j \in 1..(Len(chunks) - 1) :
        /\ Len(chunks[j]) = max_tokens
        /\ Len(chunks[j + 1]) < max_tokens
    /\ \E a, b \in 1..Len(tokens) : tokens[a] # tokens[b]

\* C5: under 0 <= overlap < max_tokens the loop has run chunk_i / stride
\* steps, never more than ceil(n / stride), can always take its next step,
\* and returns after exactly ceil(n / stride) steps with that many windows,
\* each of at most max_tokens tokens.
C5_CeilSteps ==
    ValidConfig =>
        LET step == max_tokens - overlap
            n == Len(tokens)
        IN  /\ chunk_i = Len(chunks) * step
            /\ Len(chunks) <= CeilDiv(n, step)
            /\ \A j \in 1..Len(chunks) : Len(chunks[j]) <= max_tokens
            /\ (cpc = "loop" /\ chunk_i < n) => Len(chunks) < MaxChunks
            /\ (cpc = "loop" /\ Len(chunks) < CeilDiv(n, step)) => chunk_i < n
            /\ cpc = "done" =>
                /\ Len(chunks) = CeilDiv(n, step)
                /\ chunks = ChunkText(tokens, max_tokens, overlap)

\* A finished run of several steps whose stride does not divide n, and one
\* can only tell from the count that the last window is counted.
C5_Witness ==
    /\ ValidConfig
    /\ cpc = "done"
    /\ overlap >= 1
    /\ Len(chunks) >= 3
    /\ Len(tokens) % (max_tokens - overlap) # 0

(***************************************************************************)
(* Claims about ingest.embed_batches (SpecEmbed)                           *)
(***************************************************************************)
RECURSIVE Flatten(_)
Flatten(ss) == IF ss = <<>> THEN <<>> ELSE Head(ss) \o Flatten(Tail(ss))

\* C6: the vectors appended so far are the embeddings of the texts before
\* position embed_i, in order; the call returns one vector per text, vector
\* i the embedding of texts[i], having sent ceil(n / batch_size) batches
\* that are the texts in order, all of batch_size but a shorter last one.
C6_VectorsAligned ==
    /\ epc # "raised" =>
        /\ Len(all_vecs) = Min(embed_i, Len(texts))
        /\ \A j \in 1..Len(all_vecs) : all_vecs[j] = Embedding(texts[j])
    /\ epc = "done" =>
        /\ Len(all_vecs) = Len(texts)
        /\ Flatten(sent) = texts
        /\ Len(sent) = CeilDiv(Len(texts), batch_size)
        /\ \A b \in 1..Len(sent) :
            /\ Len(sent[b]) >= 1
            /\ Len(sent[b]) <= batch_size
            /\ b < Len(sent) => Len(sent[b]) = batch_size

\* A returned call of three batches, the last one short, over texts that
\* are not all equal.
C6_Witness ==
    /\ epc = "done"
    /\ Len(sent) = 3
    /\ batch_size >= 2
    /\ Len(sent[3]) < batch_size
    /\ \E a, b \in 1..Len(texts) : texts[a] # texts[b]

(***************************************************************************)
(* Claims about ingest.ingest_single_pdf and app.delete_pdf                *)
(***************************************************************************)
Started(r) == runs[r].pc \notin {"idle", "queued"}

\* The run has read its document (PdfReader did not raise).
HasRead(r) == Started(r) /\ runs[r].err # "extract"

AllPagesEmpty(r) == \A p \in 1..Len(runs[r].pages) : runs[r].pages[p] = <<>>

RunIdSet(r) == {runs[r].ids[j] : j \in 1..Len(runs[r].ids)}

\* The records of the collection that run r wrote.
WrittenBy(r) == {rec \in store : rec.id \in RunIdSet(r)}

C8_NoRecordBeforeAllEmbedded ==
    \A r \in RunIds :
        /\ WrittenBy(r) # {} =>
            /\ runs[r].pc \in {"add", "done", "failed"}
            /\ runs[r].err \in {"", "store"}
            /\ Len(runs[r].vectors) = Len(runs[r].docs)
            /\ runs[r].embed_calls = CeilDiv(Len(runs[r].docs), EmbedBatchSize)
        /\ runs[r].pc \in {"queued", "embed"} => WrittenBy(r) = {}
        /\ runs[r].err \in {"extract", "embed"} => WrittenBy(r) = {}
        /\ runs[r].add_calls > 0 => Len(runs[r].vectors) = Len(runs[r].docs)

\* A run that failed in its second embedding batch, the first one embedded,
\* while the collection holds the records of the other run.
C8_Witness ==
    \E r \in RunIds :
        /\ runs[r].pc = "failed"
        /\ runs[r].err = "embed"
        /\ Len(runs[r].vectors) >= 1
        /\ runs[r].embed_calls = 2
        /\ store # {}

\* C9: a step of delete_pdf(filename) removes from the collection exactly
\* the records whose metadata source is filename: every other record stays
\* as it is and nothing is added.
C9_DeleteScope ==
    [][\A n \in KnownNames :
        DeletePdf(n) =>
            /\ \A rec \in store : rec.metadata.source # n => rec \in store'
            /\ \A rec \in store : rec.metadata.source = n => rec \notin store'
            /\ \A rec \in store' : rec \in store]_vars

\* delete_pdf has returned for one document, of which nothing is left,
\* while all the records of another document are in the collection.
C9_Witness ==
    \E r, q \in RunIds :
        /\ runs[r].path \in deleted
        /\ runs[q].path \notin deleted
        /\ runs[r].pc = "done" /\ Len(runs[r].ids) >= 2
        /\ runs[q].pc = "done" /\ Len(runs[q].ids) >= 2
        /\ WrittenBy(r) = {}
        /\ Cardinality(WrittenBy(q)) = Len(runs[q].ids)
        /\ store = WrittenBy(q)

\* The record of chunk j of run r.
CohortRecord(r, j) ==
    [id |-> runs[r].ids[j],
     document |-> runs[r].docs[j],
     metadata |-> [source |-> runs[r].path, page |-> runs[r].metas[j].page],
     embedding |-> Embedding(runs[r].docs[j])]

Cohort(r) == {CohortRecord(r, j) : j \in 1..Len(runs[r].ids)}

\* The chunks of run r that col.add has taken so far.
NumAdded(r) == Min(runs[r].ai, Len(runs[r].ids))

\* C10: in every interleaving of two runs the ids of the runs are pairwise
\* disjoint (and distinct within a run), two uploads have different
\* sources, every record of the collection is the record some run made of
\* one of its chunks, with the source of that run's document, every record
\* a run has added is still in the collection, and once both runs have
\* returned the collection is the union of the two cohorts.
C10_RunsDoNotInterfere ==
    /\ \A r, q \in RunIds : r # q => RunIdSet(r) \cap RunIdSet(q) = {}
    /\ \A r \in RunIds : Cardinality(RunIdSet(r)) = Len(runs[r].ids)
    /\ \A r, q \in RunIds :
        (r # q /\ runs[r].origin = "upload" /\ runs[q].origin = "upload") =>
            runs[r].path # runs[q].path
    /\ \A rec \in store : \E r \in RunIds : \E j \in 1..NumAdded(r) :
        rec = CohortRecord(r, j)
    /\ \A r \in RunIds : \A j \in 1..NumAdded(r) : CohortRecord(r, j) \in store
    /\ (\A r \in RunIds : runs[r].pc = "done") =>
        /\ store = UNION {Cohort(r) : r \in RunIds}
        /\ Cardinality(store) = Len(runs[1].ids) + Len(runs[2].ids)

\* Two runs over the same document, both between two col.add calls.
C10_Witness ==
    /\ runs[1].path = runs[2].path
    /\ \A r \in RunIds :
        /\ runs[r].pc = "add"
        /\ runs[r].ai > 0
        /\ Len(runs[r].ids) > runs[r].ai
    /\ Cardinality(store) = 2 * AddBatchSize

\* C11: once delete_pdf(filename) has returned, the collection holds no
\* record whose source is filename that was written by the background
\* ingestion upload_pdf queued for that file, also when that ingestion was
\* still in flight when delete_pdf ran.
C11_DeletedStaysDeleted ==
    \A r \in RunIds :
        (runs[r].origin = "upload" /\ runs[r].path \in deleted) =>
            ~\E rec \in WrittenBy(r) : rec.metadata.source = runs[r].path

====
